---- MODULE Spec2Model ----
(***************************************************************************)
(* Model of the LLM-orchestration component of the QR product chatbot:     *)
(* backend/llm_service.py (LLMService) and the /chat handler of            *)
(* backend/main.py.                                                        *)
(*                                                                         *)
(* Text is a sequence of symbols.  A symbol stands for one character of an *)
(* LLM answer, or for one atomic piece (a word, a template fragment, a     *)
(* canned sentence) of a prompt or of a canned reply.  The three external  *)
(* services (language guesser, translation provider, chat-completion       *)
(* endpoint) are black boxes whose replies are chosen nondeterministically.*)
(***************************************************************************)
EXTENDS Integers, Sequences, FiniteSets, TLC

VARIABLES api_key, groq_ok, use_mock, client, rq

vars == <<api_key, groq_ok, use_mock, client, rq>>

(***************************************************************************)
(* Bounds of the model.                                                    *)
(***************************************************************************)
\* at most this many product fields are missing in one product context
MaxMissing == 1
\* FAQ lists hold 0..MaxFaqs entries
MaxFaqs == 2
\* the longest LLM answer has PreviewLen + MaxExtra characters
MaxExtra == 1

(***************************************************************************)
(* Python values.                                                          *)
(***************************************************************************)
\* None, where a string is expected (os.getenv, ChatRequest.language)
None == "<None>"

\* Python truthiness of an Optional[str]
Truthy(s) == s /= None /\ s /= ""

Min(a, b) == IF a < b THEN a ELSE b

\* the characters str.strip() removes
Whitespace == {" ", "\n"}

\* index of the first non-whitespace symbol of s, Len(s) + 1 when there is none
RECURSIVE FirstNonWs(_, _)
FirstNonWs(s, i) ==
    IF i > Len(s) THEN i
    ELSE IF s[i] \in Whitespace THEN FirstNonWs(s, i + 1) ELSE i

\* index of the last non-whitespace symbol of s, 0 when there is none
RECURSIVE LastNonWs(_, _)
LastNonWs(s, i) ==
    IF i < 1 THEN 0
    ELSE IF s[i] \in Whitespace THEN LastNonWs(s, i - 1) ELSE i

\* str.strip()
strip(s) == SubSeq(s, FirstNonWs(s, 1), LastNonWs(s, Len(s)))

\* s[:n]
Slice(s, n) == SubSeq(s, 1, Min(n, Len(s)))

\* number of characters of the answer the language check looks at
PreviewLen == 100

\* sep.join(list) for a list of texts
RECURSIVE Join(_, _)
Join(sep, list) ==
    IF list = <<>> THEN <<>>
    ELSE IF Len(list) = 1 THEN list[1]
    ELSE list[1] \o sep \o Join(sep, Tail(list))

\* t occurs in s as a contiguous piece
IsInfix(t, s) ==
    \E i \in 0..(Len(s) - Len(t)) : SubSeq(s, i + 1, i + Len(t)) = t

(***************************************************************************)
(* LLMService.__init__                                                     *)
(***************************************************************************)
\* values of the GROQ_API_KEY environment variable: unset, empty, set
ApiKeys == {None, "", "gsk_key"}

\* the fields __init__ sets, given the environment's key and whether
\* Groq(api_key=...) succeeds
LLMService_init(key, ok) ==
    IF Truthy(key)
    THEN IF ok THEN [client |-> "Groq", use_mock |-> FALSE]
               ELSE [client |-> None, use_mock |-> TRUE]
    ELSE [client |-> None, use_mock |-> TRUE]

language_map ==
    [c \in {"en", "es", "fr", "de", "it", "pt", "zh-cn", "zh-tw", "ja", "ko",
            "hi", "ar", "ru", "nl", "pl", "tr", "vi", "th", "id", "ms"} |->
       CASE c = "en" -> "english"
         [] c = "es" -> "spanish"
         [] c = "fr" -> "french"
         [] c = "de" -> "german"
         [] c = "it" -> "italian"
         [] c = "pt" -> "portuguese"
         [] c = "zh-cn" -> "chinese (simplified)"
         [] c = "zh-tw" -> "chinese (traditional)"
         [] c = "ja" -> "japanese"
         [] c = "ko" -> "korean"
         [] c = "hi" -> "hindi"
         [] c = "ar" -> "arabic"
         [] c = "ru" -> "russian"
         [] c = "nl" -> "dutch"
         [] c = "pl" -> "polish"
         [] c = "tr" -> "turkish"
         [] c = "vi" -> "vietnamese"
         [] c = "th" -> "thai"
         [] c = "id" -> "indonesian"
         [] c = "ms" -> "malay"]

\* self.language_map.get(code, code)
LangName(code) ==
    IF code \in DOMAIN language_map THEN language_map[code] ELSE code

(***************************************************************************)
(* detect_language                                                         *)
(***************************************************************************)
\* what langdetect.detect can do: return a code, raise LangDetectException,
\* raise another exception
DetectorCodes == {"en", "es", "ja", "sv"}
DetectorErrors == {"LangDetectException", "Exception"}

\* the guesser has no features to work on in an empty text
DetectorReplies(text) ==
    IF text = <<>> THEN {"LangDetectException"}
    ELSE DetectorCodes \cup DetectorErrors

\* detect_language catching LangDetectException only
detect_language_OnlyLangDetect(text, det) ==
    [ret |-> IF det = "LangDetectException" THEN "en" ELSE det,
     exc |-> det = "Exception",
     log |-> <<text>>]

\* ret: the returned code; exc: an exception leaves the function;
\* log: the texts handed to the guesser
detect_language(text, det) ==
    [ret |-> IF det \in DetectorErrors THEN "en" ELSE det,
     exc |-> FALSE,
     log |-> <<text>>]

(***************************************************************************)
(* translate_text                                                          *)
(***************************************************************************)
\* what the translation provider can do: translate, or fail with an
\* exception (unsupported pair, network, quota)
ProviderReplies == {"ok", "error"}

\* the provider's output for text: some other text, here the input marked
\* with the language pair it was translated for
Translated(text, src, tgt) == <<"[translated", src, tgt, "]">> \o text

\* translate_text without its except clause: a provider failure leaves the
\* function as an exception
translate_text_NoExcept(text, source_lang, target_lang, prov) ==
    IF source_lang = target_lang
    THEN [ret |-> text, exc |-> FALSE, log |-> <<>>]
    ELSE LET call == [text |-> text, source |-> source_lang,
                      target |-> target_lang]
         IN  IF prov = "ok"
             THEN [ret |-> Translated(text, source_lang, target_lang),
                   exc |-> FALSE, log |-> <<call>>]
             ELSE [ret |-> <<>>, exc |-> TRUE, log |-> <<call>>]

\* translate_text returning the unset result on a provider failure
translate_text_EmptyOnError(text, source_lang, target_lang, prov) ==
    IF source_lang = target_lang
    THEN [ret |-> text, exc |-> FALSE, log |-> <<>>]
    ELSE LET call == [text |-> text, source |-> source_lang,
                      target |-> target_lang]
         IN  IF prov = "ok"
             THEN [ret |-> Translated(text, source_lang, target_lang),
                   exc |-> FALSE, log |-> <<call>>]
             ELSE [ret |-> <<>>, exc |-> FALSE, log |-> <<call>>]

\* translate_text without its same-language shortcut
translate_text_NoShortcut(text, source_lang, target_lang, prov) ==
    LET call == [text |-> text, source |-> source_lang, target |-> target_lang]
    IN  IF prov = "ok"
        THEN [ret |-> Translated(text, source_lang, target_lang),
              exc |-> FALSE, log |-> <<call>>]
        ELSE [ret |-> text, exc |-> FALSE, log |-> <<call>>]

\* ret: the returned text; exc: an exception leaves the function;
\* log: the uses of the provider (GoogleTranslator built for a language pair
\* and asked to translate the text)
translate_text(text, source_lang, target_lang, prov) ==
    IF source_lang = target_lang
    THEN [ret |-> text, exc |-> FALSE, log |-> <<>>]
    ELSE LET src == IF source_lang = "auto" THEN "auto" ELSE source_lang
             call == [text |-> text, source |-> src, target |-> target_lang]
         IN  IF prov = "ok"
             THEN [ret |-> Translated(text, src, target_lang), exc |-> FALSE,
                   log |-> <<call>>]
             ELSE [ret |-> text, exc |-> FALSE, log |-> <<call>>]

(***************************************************************************)
(* Product contexts.                                                       *)
(***************************************************************************)
FieldNames == {"name", "category", "manufacturer", "model_number", "price",
               "short_description", "detailed_specs", "warranty_info"}
OptionalFields == FieldNames \ {"name"}

\* a dict entry: no such key, the key with value None, the key with a string
Absent == [tag |-> "absent", s |-> <<>>]
NoneVal == [tag |-> "none", s |-> <<>>]
Str(t) == [tag |-> "str", s |-> t]

\* dict.get(key, default)
DictGet(d, key, default) == IF d[key].tag = "absent" THEN default ELSE d[key]

\* how str.format renders a value
Format(v) == IF v.tag = "none" THEN <<"None">> ELSE v.s

\* the stored value of each column of the sample product (shortened)
BaseValue(f) ==
    CASE f = "name" -> <<"UltraBook Pro 15">>
      [] f = "category" -> <<"Laptops">>
      [] f = "manufacturer" -> <<"TechCorp">>
      [] f = "model_number" -> <<"UBP15-2024">>
      [] f = "price" -> <<"$1,299.99">>
      [] f = "short_description" ->
           <<"High-performance", "laptop", "for", "professionals">>
      [] f = "detailed_specs" -> <<"Intel i7-12700H,", "16GB DDR4 RAM, [...]">>
      [] f = "warranty_info" -> <<"2-year", "limited", "warranty", "[...]">>

\* another description a product can carry
AltDescription == <<"English", "and", "Spanish", "keyboard">>

\* two of the sample product's FAQs
SampleFaq == [question |-> <<"What's", "the", "battery", "life?">>,
              answer |-> <<"Up to 10 hours of typical usage [...]">>,
              category |-> <<"specs">>]
OtherFaq == [question |-> <<"Does", "it", "support", "external", "monitors?">>,
             answer |-> <<"Yes,", "supports up to two 4K [...]">>,
             category |-> <<"specs">>]

\* the FAQ lists of 0..MaxFaqs entries
RECURSIVE FaqList(_)
FaqList(n) ==
    IF n = 0 THEN <<>>
    ELSE Append(FaqList(n - 1), IF n % 2 = 1 THEN SampleFaq ELSE OtherFaq)
FaqLists == {FaqList(n) : n \in 0..MaxFaqs}

\* the sets of at most MaxMissing fields
MissingSets(S) == {m \in SUBSET S : Cardinality(m) <= MaxMissing}

\* a products row with its FAQs: name is NOT NULL, every other column is
\* nullable (models.py); a NULL column reads as None
Row(m, d, l) ==
    [fields |-> [f \in FieldNames |->
                    IF f \in m THEN NoneVal
                    ELSE IF f = "short_description" THEN Str(d)
                    ELSE Str(BaseValue(f))],
     faqs |-> [tag |-> "list", l |-> l]]

\* the rows of the products table: the sample product with some columns
\* NULL, with another description, with fewer FAQs
Rows ==
    {Row(m, BaseValue("short_description"), FaqList(MaxFaqs)) :
        m \in MissingSets(OptionalFields)}
    \cup {Row({}, AltDescription, FaqList(MaxFaqs))}
    \cup {Row({}, BaseValue("short_description"), l) : l \in FaqLists}

\* the dict the chat handler builds from a row (main.py lines 57-74): every
\* key is present, a NULL column is passed as None, the FAQs keep their order
ProductDataOf(row) ==
    [fields |-> [f \in FieldNames |-> row.fields[f]],
     faqs |-> [tag |-> "list",
               l |-> [i \in 1..Len(row.faqs.l) |->
                        [question |-> row.faqs.l[i].question,
                         answer |-> row.faqs.l[i].answer,
                         category |-> row.faqs.l[i].category]]]]

\* dicts a direct caller of create_context_prompt can pass: keys may be left
\* out, or hold None
Dicts ==
    {[fields |-> [f \in FieldNames |->
                     IF f \in m THEN v ELSE Str(BaseValue(f))],
      faqs |-> [tag |-> "list", l |-> FaqList(MaxFaqs)]] :
        m \in MissingSets(FieldNames), v \in {Absent, NoneVal}}
    \cup {[fields |-> [f \in FieldNames |-> Str(BaseValue(f))],
           faqs |-> [tag |-> "absent", l |-> <<>>]]}

(***************************************************************************)
(* create_context_prompt                                                   *)
(***************************************************************************)
\* values of ChatRequest.language / response_language
RequestLanguages == {None, "", "en", "es", "fr", "de", "zh-cn", "hi", "ja", "xx"}

\* customer questions
Questions ==
    {<<"What's", "the", "battery", "life?">>,
     <<"Battery", "manual", "in", "Spanish">>,
     <<"How", "much", "does", "it", "cost">>,
     <<"warranty">>,
     <<"hello">>,
     <<>>}

\* f"Q: {faq['question']}\nA: {faq['answer']}\n"
FaqText(faq) ==
    <<"Q: ">> \o faq.question \o <<"\n", "A: ">> \o faq.answer \o <<"\n">>

\* the FAQ block built from the list in reverse order
FaqsText_Reversed(product_data) ==
    LET l == IF product_data.faqs.tag = "absent" THEN <<>>
             ELSE product_data.faqs.l
    IN  Join(<<"\n">>, [i \in 1..Len(l) |-> FaqText(l[Len(l) + 1 - i])])

\* "\n".join([... for faq in product_data.get('faqs', [])])
FaqsText(product_data) ==
    LET l == IF product_data.faqs.tag = "absent" THEN <<>>
             ELSE product_data.faqs.l
    IN  Join(<<"\n">>, [i \in 1..Len(l) |-> FaqText(l[i])])

NoFaqs == <<"No FAQs available">>

\* prompt_template.format(...)
PromptTemplate(language, product_name, category, manufacturer, model_number, price, description, specs, warranty, faqs, user_question) ==
    <<"\n", "You are a helpful product support assistant. [...] IMPORTANT: The customer asked their question in",
      language, ". You MUST provide your ENTIRE response in", language,
      ". Do not mix languages [...]", "\n", "PRODUCT INFORMATION:", "\n">>
    \o <<"- Product Name:">> \o product_name \o <<"\n">>
    \o <<"- Category:">> \o category \o <<"\n">>
    \o <<"- Manufacturer:">> \o manufacturer \o <<"\n">>
    \o <<"- Model:">> \o model_number \o <<"\n">>
    \o <<"- Price:">> \o price \o <<"\n">>
    \o <<"- Description:">> \o description \o <<"\n">>
    \o <<"- Specifications:">> \o specs \o <<"\n">>
    \o <<"- Warranty:">> \o warranty \o <<"\n">>
    \o <<"\n", "FREQUENTLY ASKED QUESTIONS:", "\n">> \o faqs \o <<"\n", "\n">>
    \o <<"CUSTOMER QUESTION (in", language, "):">> \o user_question
    \o <<"\n", "\n", "Please provide a helpful, accurate answer in", language,
         ". If the information isn't available [...] politely explain in",
         language,
         "that you don't have that specific information [...]", "\n", "\n",
         "Remember: Your ENTIRE response must be in", language,
         ". Keep your response conversational and helpful.", "\n">>

\* the language is detected even when the caller names one
ResolveLanguage_AlwaysDetect(user_question, response_language, det) ==
    detect_language(user_question, det)

\* detected_lang = self.detect_language(user_question)
\*                 if not response_language else response_language
ResolveLanguage(user_question, response_language, det) ==
    IF ~Truthy(response_language)
    THEN detect_language(user_question, det)
    ELSE [ret |-> response_language, exc |-> FALSE, log |-> <<>>]

\* prompt: the prompt; detected_lang: the code returned with it;
\* exc: an exception leaves the function; log: the texts handed to the guesser
create_context_prompt(product_data, user_question, response_language, det) ==
    LET d == ResolveLanguage(user_question, response_language, det)
        detected_lang == d.ret
        lang_name == LangName(detected_lang)
        faqs_text == FaqsText(product_data)
        f == product_data.fields
    IN  [prompt |->
           PromptTemplate(
             lang_name,
             Format(DictGet(f, "name", Str(<<"Unknown">>))),
             Format(DictGet(f, "category", Str(<<"N/A">>))),
             Format(DictGet(f, "manufacturer", Str(<<"N/A">>))),
             Format(DictGet(f, "model_number", Str(<<"N/A">>))),
             Format(DictGet(f, "price", Str(<<"N/A">>))),
             Format(DictGet(f, "short_description", Str(<<"N/A">>))),
             Format(DictGet(f, "detailed_specs", Str(<<"N/A">>))),
             Format(DictGet(f, "warranty_info", Str(<<"N/A">>))),
             IF faqs_text /= <<>> THEN faqs_text ELSE NoFaqs,
             user_question),
         detected_lang |-> detected_lang,
         exc |-> d.exc,
         log |-> d.log]

(***************************************************************************)
(* _get_mock_response                                                      *)
(***************************************************************************)
\* the symbols whose lower-cased text contains the keyword kw
SymbolsWithLower(kw) ==
    CASE kw = "battery" -> {"battery", "Battery"}
      [] kw = "bateria" -> {"bateria"}
      [] kw = "batterie" -> {"batterie"}
      [] kw = "akku" -> {"akku"}
      [] kw = "precio" -> {"precio?"}
      [] kw = "prix" -> {"prix"}
      [] kw = "preis" -> {"preis"}
      [] kw = "cost" -> {"cost"}
      [] kw = "price" -> {"price", "- Price:"}
      [] kw = "warranty" -> {"warranty", "- Warranty:"}
      [] kw = "specs" -> {"specs"}
      [] kw = "specification" -> {"specification", "- Specifications:"}
      [] kw = "spanish" -> {"spanish", "Spanish"}
      [] kw = "french" -> {"french"}
      [] kw = "german" -> {"german"}
      [] kw = "chinese" -> {"chinese (simplified)", "chinese (traditional)"}
      [] kw = "hindi" -> {"hindi"}
      [] OTHER -> {}

\* the symbols whose text contains kw as written (no case folding)
SymbolsWith(kw) ==
    CASE kw = "CUSTOMER QUESTION" ->
           {"CUSTOMER QUESTION (in", "CUSTOMER QUESTION"}
      [] kw = "zh:dianchi" -> {"zh:dianchi"}
      [] kw = "zh:jiage" -> {"zh:jiage"}
      [] kw = "hi:baitari" -> {"hi:baitari"}
      [] kw = "hi:kimat" -> {"hi:kimat"}
      [] OTHER -> {}

\* kw in text.lower()
InLower(kw, text) == \E i \in DOMAIN text : text[i] \in SymbolsWithLower(kw)

\* kw in text
In(kw, text) == \E i \in DOMAIN text : text[i] \in SymbolsWith(kw)

\* text.split(kw)[-1]: what follows the last occurrence of kw
RECURSIVE SplitLast(_, _)
SplitLast(kw, text) ==
    IF In(kw, Tail(text)) THEN SplitLast(kw, Tail(text))
    ELSE IF text[1] \in SymbolsWith(kw) THEN Tail(text)
    ELSE SplitLast(kw, Tail(text))

\* the canned sentences
MockBatteryEn == <<"Based on the product specifications, the battery life is up to 10 hours [...]">>
MockWarrantyEn == <<"This product comes with a 2-year limited warranty [...]">>
MockPriceEn == <<"The current price for this product is $1,299.99. [...]">>
MockSpecsEn == <<"This product features high-end specifications [...]">>
MockDefaultEn == <<"Thank you for your question! I'd be happy to help you [...]">>
MockHello == <<"Hello! I'm here to help answer questions about this product. [...]">>
MockBatteryEs == <<"Segun las especificaciones del producto, la duracion de la bateria [...]">>
MockPriceEs == <<"El precio actual de este producto es $1,299.99. [...]">>
MockDefaultEs == <<"Gracias por su pregunta. [...]">>
MockBatteryFr == <<"Selon les specifications du produit, l'autonomie de la batterie [...]">>
MockPriceFr == <<"Le prix actuel de ce produit est de 1 299,99 $. [...]">>
MockDefaultFr == <<"Merci pour votre question. [...]">>
MockBatteryDe == <<"Laut den Produktspezifikationen betraegt die Akkulaufzeit [...]">>
MockPriceDe == <<"Der aktuelle Preis fuer dieses Produkt betraegt 1.299,99 $. [...]">>
MockDefaultDe == <<"Vielen Dank fuer Ihre Frage. [...]">>
MockBatteryZh == <<"zh: battery life is up to 10 hours [...]">>
MockPriceZh == <<"zh: the current price is $1,299.99 [...]">>
MockDefaultZh == <<"zh: thank you for your question [...]">>
MockBatteryHi == <<"hi: battery life is up to 10 hours [...]">>
MockPriceHi == <<"hi: the current price is $1,299.99 [...]">>
MockDefaultHi == <<"hi: thank you for your question [...]">>

_get_mock_response(prompt) ==
    IF In("CUSTOMER QUESTION", prompt)
    THEN IF InLower("spanish", prompt)
         THEN IF InLower("bateria", prompt) \/ InLower("battery", prompt)
              THEN MockBatteryEs
              ELSE IF InLower("precio", prompt) \/ InLower("cost", prompt)
              THEN MockPriceEs
              ELSE MockDefaultEs
         ELSE IF InLower("french", prompt)
         THEN IF InLower("batterie", prompt) \/ InLower("battery", prompt)
              THEN MockBatteryFr
              ELSE IF InLower("prix", prompt) \/ InLower("cost", prompt)
              THEN MockPriceFr
              ELSE MockDefaultFr
         ELSE IF InLower("german", prompt)
         THEN IF InLower("batterie", prompt) \/ InLower("akku", prompt)
              THEN MockBatteryDe
              ELSE IF InLower("preis", prompt) \/ InLower("cost", prompt)
              THEN MockPriceDe
              ELSE MockDefaultDe
         ELSE IF InLower("chinese", prompt)
         THEN IF In("zh:dianchi", prompt) \/ InLower("battery", prompt)
              THEN MockBatteryZh
              ELSE IF In("zh:jiage", prompt) \/ InLower("cost", prompt)
              THEN MockPriceZh
              ELSE MockDefaultZh
         ELSE IF InLower("hindi", prompt)
         THEN IF In("hi:baitari", prompt) \/ InLower("battery", prompt)
              THEN MockBatteryHi
              ELSE IF In("hi:kimat", prompt) \/ InLower("price", prompt)
              THEN MockPriceHi
              ELSE MockDefaultHi
         ELSE LET user_question ==
                      strip(SplitLast("CUSTOMER QUESTION", prompt))
              IN  IF InLower("battery", user_question) THEN MockBatteryEn
                  ELSE IF InLower("warranty", user_question)
                  THEN MockWarrantyEn
                  ELSE IF InLower("price", user_question)
                          \/ InLower("cost", user_question)
                  THEN MockPriceEn
                  ELSE IF InLower("specs", user_question)
                          \/ InLower("specification", user_question)
                  THEN MockSpecsEn
                  ELSE MockDefaultEn
    ELSE MockHello

(***************************************************************************)
(* get_response                                                            *)
(***************************************************************************)
\* n copies of the character c
Rep(c, n) == [i \in 1..n |-> c]

\* message contents the chat-completion endpoint can return: short ones,
\* with and without surrounding whitespace, the empty one, and long ones of
\* PreviewLen - 1 .. PreviewLen + MaxExtra characters after stripping
Answers ==
    {<<" ", "H", "i", "\n">>, <<>>}
    \cup {<<" ">> \o Rep("x", PreviewLen - 1) \o Rep("y", k) :
            k \in 0..(MaxExtra + 1)}

\* what self.client.chat.completions.create can do: return a completion
\* with a text, return one whose message content is None, raise
ChatErrors == {"Request timed out.", "Error code: 401 - invalid_api_key"}
ChatReplies ==
    {[kind |-> "ok", content |-> a, error |-> ""] : a \in Answers}
    \cup {[kind |-> "none", content |-> <<>>, error |-> ""]}
    \cup {[kind |-> "raise", content |-> <<>>, error |-> e] : e \in ChatErrors}
NoChat == [kind |-> "unused", content |-> <<>>, error |-> ""]

\* str(e) of the AttributeError raised by None.strip()
NoneStripError == "'NoneType' object has no attribute 'strip'"

Apology == "I apologize, but I'm having trouble processing your request right now. Please try again later or contact customer support."

\* f"I apologize, [...] contact customer support. Error: {str(e)}"
ErrorMsg(e) == <<Apology, " Error: ", e>>

\* llm_response[:100], the part of the answer the language check looks at
Preview_Whole(llm_response) == llm_response
Preview(llm_response) == Slice(llm_response, PreviewLen)

\* what get_response leaves in the instance's fields: it assigns none
get_response_self_MockAfterFailure(mock, cl, chat) ==
    IF chat.kind \in {"raise", "none"}
    THEN [use_mock |-> TRUE, client |-> None]
    ELSE [use_mock |-> mock, client |-> cl]
get_response_self(mock, cl, chat) == [use_mock |-> mock, client |-> cl]

\* a failed request is sent a second time
RemoteRequests_RetryOnce(chat) == IF chat.kind = "raise" THEN 2 ELSE 1

\* the requests one live call sends to the chat endpoint: the single
\* self.client.chat.completions.create(...) in the try block, in no loop
RemoteRequests(chat) == 1

\* ret: the returned text; exc: an exception leaves the function;
\* chat_calls: requests made to the chat endpoint; detect_log, provider_log:
\* the texts handed to the guesser, the uses of the translation provider;
\* redetected: the code the guesser gave for the answer, None when not asked
get_response(prompt, target_language, mock, chat, det, prov) ==
    IF mock
    THEN LET response == _get_mock_response(prompt)
             t == translate_text(response, "en", target_language, prov)
         IN  IF target_language /= "en"
             THEN [ret |-> t.ret, exc |-> t.exc, chat_calls |-> 0,
                   detect_log |-> <<>>, provider_log |-> t.log,
                   redetected |-> None]
             ELSE [ret |-> response, exc |-> FALSE, chat_calls |-> 0,
                   detect_log |-> <<>>, provider_log |-> <<>>,
                   redetected |-> None]
    ELSE LET \* except Exception as e: (lines 192-197)
             Handler(e, dlog, plog, red) ==
                 LET error_msg == ErrorMsg(e)
                     t == translate_text(error_msg, "en", target_language, prov)
                 IN  IF target_language /= "en"
                     THEN [ret |-> t.ret, exc |-> t.exc, chat_calls |-> RemoteRequests(chat),
                           detect_log |-> dlog, provider_log |-> plog \o t.log,
                           redetected |-> red]
                     ELSE [ret |-> error_msg, exc |-> FALSE, chat_calls |-> RemoteRequests(chat),
                           detect_log |-> dlog, provider_log |-> plog,
                           redetected |-> red]
             llm_response == strip(chat.content)
             d == detect_language(Preview(llm_response), det)
             t == translate_text(llm_response, d.ret, target_language, prov)
         IN  IF chat.kind = "raise" THEN Handler(chat.error, <<>>, <<>>, None)
             ELSE IF chat.kind = "none"
             THEN Handler(NoneStripError, <<>>, <<>>, None)
             ELSE IF target_language /= "en"
             THEN IF d.exc
                  THEN Handler("detect_language", d.log, <<>>, None)
                  ELSE IF d.ret /= target_language
                  THEN IF t.exc
                       THEN Handler("translate_text", d.log, t.log, d.ret)
                       ELSE [ret |-> t.ret, exc |-> FALSE, chat_calls |-> RemoteRequests(chat),
                             detect_log |-> d.log, provider_log |-> t.log,
                             redetected |-> d.ret]
                  ELSE [ret |-> llm_response, exc |-> FALSE, chat_calls |-> RemoteRequests(chat),
                        detect_log |-> d.log, provider_log |-> <<>>,
                        redetected |-> d.ret]
             ELSE [ret |-> llm_response, exc |-> FALSE, chat_calls |-> RemoteRequests(chat),
                   detect_log |-> <<>>, provider_log |-> <<>>,
                   redetected |-> None]

(***************************************************************************)
(* State.                                                                  *)
(*   api_key, groq_ok : the environment the service was constructed in     *)
(*   use_mock, client : the fields of the shared LLMService instance       *)
(*   rq[r]            : the call in progress on behalf of request r        *)
(***************************************************************************)
Reqs == {1, 2}

NoProduct ==
    [fields |-> [f \in FieldNames |-> Absent],
     faqs |-> [tag |-> "absent", l |-> <<>>]]
NoResponse ==
    [status |-> 0, answer |-> <<>>, product_name |-> <<>>,
     detected_language |-> None]

\* op: the operation called; pc: where it stands; then its arguments, the
\* replies of the external services it used, its results, and what it did
\* (detect_log: the texts create_context_prompt or detect_language handed to
\* the guesser; answer_detect_log: those get_response handed to it)
Idle ==
    [op |-> "none", pc |-> "idle",
     product_data |-> NoProduct, user_message |-> <<>>, language |-> None,
     text |-> <<>>, source_lang |-> None, target_language |-> None,
     det_reply |-> "unused", prov_reply |-> "unused", chat |-> NoChat,
     prompt |-> <<>>, detected_language |-> None, answer |-> <<>>,
     ret_code |-> None, exc |-> FALSE, redetected |-> None,
     chat_calls |-> 0, detect_log |-> <<>>, answer_detect_log |-> <<>>,
     provider_log |-> <<>>,
     response |-> NoResponse]

Init ==
    /\ api_key \in ApiKeys
    /\ groq_ok \in (IF Truthy(api_key) THEN BOOLEAN ELSE {TRUE})
    /\ use_mock = LLMService_init(api_key, groq_ok).use_mock
    /\ client = LLMService_init(api_key, groq_ok).client
    /\ rq = [r \in Reqs |-> Idle]

\* the reply of a service, recorded only when the service was used
Used(log, reply) == IF log = <<>> THEN "unused" ELSE reply

(***************************************************************************)
(* POST /chat (main.py)                                                    *)
(***************************************************************************)
\* lines 51-54: no product with the requested id
ChatNotFound(r) ==
    /\ rq[r].pc = "idle"
    /\ rq' = [rq EXCEPT ![r] =
                [Idle EXCEPT !.op = "chat", !.pc = "done",
                             !.response = [NoResponse EXCEPT !.status = 404]]]
    /\ UNCHANGED <<api_key, groq_ok, use_mock, client>>

\* lines 51-81: the product is found, product_data is built from the row and
\* create_context_prompt is called
\* (the request's product, message and language drawn from the given sets)
ChatPromptFrom(r, rows, msgs, langs) ==
    /\ rq[r].pc = "idle"
    /\ \E row \in rows, msg \in msgs, lang \in langs :
         \E det \in DetectorReplies(msg) :
           LET product_data == ProductDataOf(row)
               c == create_context_prompt(product_data, msg, lang, det)
           IN  rq' = [rq EXCEPT ![r] =
                 [Idle EXCEPT
                    !.op = "chat",
                    !.pc = IF c.exc THEN "done" ELSE "respond",
                    !.product_data = product_data,
                    !.user_message = msg,
                    !.language = lang,
                    !.det_reply = Used(c.log, det),
                    !.detect_log = c.log,
                    !.prompt = c.prompt,
                    !.detected_language = c.detected_lang,
                    !.exc = c.exc,
                    !.response = IF c.exc
                                 THEN [NoResponse EXCEPT !.status = 500]
                                 ELSE NoResponse]]
    /\ UNCHANGED <<api_key, groq_ok, use_mock, client>>

ChatPrompt(r) == ChatPromptFrom(r, Rows, Questions, RequestLanguages)

\* the replies of the external services get_response can use for one call
\* in the given mode
ChatRepliesFor(mock) == IF mock THEN {NoChat} ELSE ChatReplies
DetectorRepliesFor(chat) ==
    IF chat.kind = "ok"
    THEN DetectorReplies(Preview(strip(chat.content)))
    ELSE {"unused"}

\* ChatResponse(answer=..., product_name=..., detected_language=...)
ChatResponse_ReportsName(answer, product_name, detected_language) ==
    [status |-> 200, answer |-> answer, product_name |-> product_name,
     detected_language |-> LangName(detected_language)]
ChatResponse(answer, product_name, detected_language) ==
    [status |-> 200, answer |-> answer, product_name |-> product_name,
     detected_language |-> detected_language]

\* lines 84-90: get_response is awaited and the ChatResponse is returned
\* (the chat endpoint's reply drawn from the given set)
ChatAnswerFrom(r, chats) ==
    /\ rq[r].pc = "respond"
    /\ rq[r].op = "chat"
    /\ \E chat \in chats, prov \in ProviderReplies :
         \E det \in DetectorRepliesFor(chat) :
           LET detected_language == rq[r].detected_language
               g == get_response(rq[r].prompt, detected_language, use_mock,
                                 chat, det, prov)
           IN
         /\ rq' = [rq EXCEPT ![r] =
                 [@ EXCEPT
                    !.pc = "done",
                    !.target_language = detected_language,
                    !.chat = chat,
                    !.prov_reply = Used(g.provider_log, prov),
                    !.answer = g.ret,
                    !.exc = g.exc,
                    !.redetected = g.redetected,
                    !.chat_calls = g.chat_calls,
                    !.answer_detect_log = g.detect_log,
                    !.provider_log = g.provider_log,
                    !.response =
                       IF g.exc THEN [NoResponse EXCEPT !.status = 500]
                       ELSE ChatResponse(
                              g.ret, rq[r].product_data.fields["name"].s,
                              detected_language)]]
         /\ use_mock' = get_response_self(use_mock, client, chat).use_mock
         /\ client' = get_response_self(use_mock, client, chat).client
    /\ UNCHANGED <<api_key, groq_ok>>

(***************************************************************************)
(* Direct calls of the service's methods (tests, scripts, other callers).  *)
(***************************************************************************)
\* create_context_prompt(product_data, user_question, response_language)
CallCreateContextPrompt(r) ==
    /\ rq[r].pc = "idle"
    /\ \E product_data \in Dicts, msg \in Questions, lang \in RequestLanguages :
         \E det \in DetectorReplies(msg) :
           LET c == create_context_prompt(product_data, msg, lang, det)
           IN  rq' = [rq EXCEPT ![r] =
                 [Idle EXCEPT
                    !.op = "create_context_prompt",
                    !.pc = "done",
                    !.product_data = product_data,
                    !.user_message = msg,
                    !.language = lang,
                    !.det_reply = Used(c.log, det),
                    !.detect_log = c.log,
                    !.prompt = c.prompt,
                    !.detected_language = c.detected_lang,
                    !.exc = c.exc]]
    /\ UNCHANGED <<api_key, groq_ok, use_mock, client>>

\* prompts handed to get_response by a direct caller: one that is no product
\* prompt, and a product prompt
DirectPrompts ==
    {<<"hello">>,
     create_context_prompt(ProductDataOf(Row({}, AltDescription, <<>>)),
                           <<"warranty">>, "ja", "unused").prompt}
DirectTargets == {"en", "es", "ja"}

\* get_response(prompt, target_language)
CallGetResponse(r) ==
    /\ rq[r].pc = "idle"
    /\ \E prompt \in DirectPrompts, target_language \in DirectTargets,
          chat \in ChatRepliesFor(use_mock), prov \in ProviderReplies :
         \E det \in DetectorRepliesFor(chat) :
           LET g == get_response(prompt, target_language, use_mock,
                                 chat, det, prov)
           IN
         /\ rq' = [rq EXCEPT ![r] =
                 [Idle EXCEPT
                    !.op = "get_response",
                    !.pc = "done",
                    !.prompt = prompt,
                    !.target_language = target_language,
                    !.chat = chat,
                    !.prov_reply = Used(g.provider_log, prov),
                    !.answer = g.ret,
                    !.exc = g.exc,
                    !.redetected = g.redetected,
                    !.chat_calls = g.chat_calls,
                    !.answer_detect_log = g.detect_log,
                    !.provider_log = g.provider_log]]
         /\ use_mock' = get_response_self(use_mock, client, chat).use_mock
         /\ client' = get_response_self(use_mock, client, chat).client
    /\ UNCHANGED <<api_key, groq_ok>>

\* texts and language codes handed to translate_text and detect_language by a
\* direct caller
DirectTexts == {<<"H", "o", "l", "a">>, <<" ">>, <<>>}
TranslateLangs == {"auto", "en", "es"}

\* translate_text(text, source_lang, target_lang)
CallTranslateText(r) ==
    /\ rq[r].pc = "idle"
    /\ \E text \in DirectTexts, source_lang \in TranslateLangs,
          target_lang \in TranslateLangs, prov \in ProviderReplies :
         LET t == translate_text(text, source_lang, target_lang, prov)
         IN  rq' = [rq EXCEPT ![r] =
               [Idle EXCEPT
                  !.op = "translate_text",
                  !.pc = "done",
                  !.text = text,
                  !.source_lang = source_lang,
                  !.target_language = target_lang,
                  !.prov_reply = Used(t.log, prov),
                  !.answer = t.ret,
                  !.exc = t.exc,
                  !.provider_log = t.log]]
    /\ UNCHANGED <<api_key, groq_ok, use_mock, client>>

\* detect_language(text)
CallDetectLanguage(r) ==
    /\ rq[r].pc = "idle"
    /\ \E text \in DirectTexts :
         \E det \in DetectorReplies(text) :
           LET d == detect_language(text, det)
           IN  rq' = [rq EXCEPT ![r] =
                 [Idle EXCEPT
                    !.op = "detect_language",
                    !.pc = "done",
                    !.text = text,
                    !.det_reply = Used(d.log, det),
                    !.ret_code = d.ret,
                    !.exc = d.exc,
                    !.detect_log = d.log]]
    /\ UNCHANGED <<api_key, groq_ok, use_mock, client>>

ChatAnswer(r) == ChatAnswerFrom(r, ChatRepliesFor(use_mock))

\* the response has been sent, the call has returned
Finish(r) ==
    /\ rq[r].pc = "done"
    /\ rq' = [rq EXCEPT ![r] = Idle]
    /\ UNCHANGED <<api_key, groq_ok, use_mock, client>>

\* the request the sequential specification serves
Main == 1

Next ==
    \/ ChatNotFound(Main)
    \/ ChatPrompt(Main)
    \/ ChatAnswer(Main)
    \/ CallCreateContextPrompt(Main)
    \/ CallGetResponse(Main)
    \/ CallTranslateText(Main)
    \/ CallDetectLanguage(Main)
    \/ Finish(Main)

Spec == Init /\ [][Next]_vars

(***************************************************************************)
(* Concurrent chat requests on the one shared LLMService instance: the     *)
(* handler of one request can be suspended at its await while the other    *)
(* runs.  Fewer products, questions and replies than in Spec.              *)
(***************************************************************************)
ConcRows ==
    {Row({}, BaseValue("short_description"), FaqList(MaxFaqs)),
     Row({"category"}, AltDescription, <<>>)}
ConcQuestions == {<<"What's", "the", "battery", "life?">>}
ConcLanguages == {None, "es"}
ConcChatReplies ==
    IF use_mock THEN {NoChat}
    ELSE {[kind |-> "ok", content |-> <<" ", "H", "i", "\n">>, error |-> ""],
          [kind |-> "ok", content |-> Rep("x", PreviewLen) \o <<"y">>,
           error |-> ""],
          [kind |-> "raise", content |-> <<>>, error |-> "Request timed out."]}

ConcChatPrompt ==
    \E r \in Reqs : ChatPromptFrom(r, ConcRows, ConcQuestions, ConcLanguages)
ConcChatAnswer == \E r \in Reqs : ChatAnswerFrom(r, ConcChatReplies)
ConcFinish == \E r \in Reqs : Finish(r)

NextConc ==
    \/ ConcChatPrompt
    \/ ConcChatAnswer
    \/ ConcFinish

SpecConc == Init /\ [][NextConc]_vars

(***************************************************************************)
(* Properties.                                                             *)
(***************************************************************************)
\* request r has completed a call of get_response (directly or from /chat)
Responded(r) ==
    /\ rq[r].pc = "done"
    /\ rq[r].op \in {"chat", "get_response"}
    /\ rq[r].target_language /= None

\* the remote chat-completion call of request r failed
RemoteFailed(r) == rq[r].chat.kind \in {"raise", "none"}

\* C1: get_response never raises to its caller: in mock and in live mode,
\* whatever the chat endpoint, the language guesser and the translation
\* provider do, the call ends by returning an answer (and /chat answers 200).
C1_GetResponseNeverRaises ==
    \A r \in Reqs :
        Responded(r) =>
            /\ rq[r].exc = FALSE
            /\ rq[r].op = "chat" => rq[r].response.status = 200

\* C1 witness: a live call whose remote request raised and whose translation
\* of the fallback message failed as well has returned
C1_Witness ==
    \E r \in Reqs :
        /\ Responded(r)
        /\ ~use_mock
        /\ rq[r].chat.kind = "raise"
        /\ rq[r].prov_reply = "error"
        /\ rq[r].exc = FALSE

\* the fixed apology, as the claim has it: no detail of the failure
FixedApology == <<Apology>>

\* C2 (as claimed): in live mode, when the remote call fails, get_response
\* returns the fixed apology message: for target "en" the same text for every
\* failure cause, with no raw error detail; for another target the
\* translator's output for that fixed message, or the message itself when
\* the translation fails.
C2_FixedApologyOnFailure ==
    \A r \in Reqs :
        (Responded(r) /\ ~use_mock /\ RemoteFailed(r)) =>
            IF rq[r].target_language = "en"
            THEN rq[r].answer = FixedApology
            ELSE rq[r].answer \in
                   {Translated(FixedApology, "en", rq[r].target_language),
                    FixedApology}

\* the label the template puts before each product field
Label(f) ==
    CASE f = "name" -> "- Product Name:"
      [] f = "category" -> "- Category:"
      [] f = "manufacturer" -> "- Manufacturer:"
      [] f = "model_number" -> "- Model:"
      [] f = "price" -> "- Price:"
      [] f = "short_description" -> "- Description:"
      [] f = "detailed_specs" -> "- Specifications:"
      [] f = "warranty_info" -> "- Warranty:"

\* request r has built a prompt with create_context_prompt
Built(r) ==
    /\ rq[r].op \in {"chat", "create_context_prompt"}
    /\ rq[r].pc \in {"respond", "done"}
    /\ rq[r].prompt /= <<>>

\* C3 (as claimed): every product field that has a value appears verbatim in
\* the prompt, every optional field that is missing (absent from the record,
\* or present with no value) is rendered as "N/A", and a missing name as
\* "Unknown".
C3_FieldsRendered ==
    \A r \in Reqs :
        Built(r) =>
            \A f \in FieldNames :
                LET v == rq[r].product_data.fields[f]
                    shown == IF v.tag = "str" THEN v.s
                             ELSE IF f = "name" THEN <<"Unknown">>
                             ELSE <<"N/A">>
                IN  IsInfix(<<Label(f)>> \o shown \o <<"\n">>, rq[r].prompt)

\* the canned sentences of each language that has literal templates
TemplateSentences(code) ==
    CASE code = "es" -> {MockBatteryEs, MockPriceEs, MockDefaultEs}
      [] code = "fr" -> {MockBatteryFr, MockPriceFr, MockDefaultFr}
      [] code = "de" -> {MockBatteryDe, MockPriceDe, MockDefaultDe}
      [] code \in {"zh-cn", "zh-tw"} ->
           {MockBatteryZh, MockPriceZh, MockDefaultZh}
      [] code = "hi" -> {MockBatteryHi, MockPriceHi, MockDefaultHi}
      [] OTHER -> {}
EnglishSentences ==
    {MockBatteryEn, MockWarrantyEn, MockPriceEn, MockSpecsEn, MockDefaultEn,
     MockHello}

\* C4 (as claimed): in mock mode with a non-English target language,
\* get_response returns the language's literal canned sentence unchanged when
\* a template exists for the language, and the translation provider is used
\* only when none exists, and then for the English canned sentence with
\* source "en" and the target language.
C4_MockTemplatesUntranslated ==
    \A r \in Reqs :
        (Responded(r) /\ use_mock /\ rq[r].op = "chat"
         /\ rq[r].target_language /= "en") =>
            IF TemplateSentences(rq[r].target_language) /= {}
            THEN /\ rq[r].provider_log = <<>>
                 /\ rq[r].answer \in TemplateSentences(rq[r].target_language)
            ELSE /\ Len(rq[r].provider_log) = 1
                 /\ rq[r].provider_log[1].text \in EnglishSentences
                 /\ rq[r].provider_log[1].source = "en"
                 /\ rq[r].provider_log[1].target = rq[r].target_language

\* C5 (as claimed): in mock mode, for any product context, a question
\* containing "battery" with resolved language "en" gets exactly the English
\* battery-life sentence, without any use of the translation provider, and
\* the language reported with it is "en".
C5_BatteryEnglish ==
    \A r \in Reqs :
        (Responded(r) /\ use_mock /\ rq[r].op = "chat"
         /\ InLower("battery", rq[r].user_message)
         /\ rq[r].detected_language = "en") =>
            /\ rq[r].answer = MockBatteryEn
            /\ rq[r].provider_log = <<>>
            /\ rq[r].response.detected_language = "en"

\* C6: the mode is chosen at construction (mock exactly when no API key is
\* configured or building the client failed) and no call changes it: in every
\* state reached by any sequence of calls, use_mock and client are what the
\* constructor set for the environment the service was built in.
C6_ModeFixedAtConstruction ==
    /\ use_mock <=> (~Truthy(api_key) \/ ~groq_ok)
    /\ client = (IF use_mock THEN None ELSE "Groq")

\* C6 witness: a live service whose remote call failed is still live
C6_Witness ==
    \E r \in Reqs : Responded(r) /\ RemoteFailed(r) /\ ~use_mock

\* C7: translate_text(text, L, L) returns text unchanged, for every L
\* ("auto" included), and makes no use of the translation provider.
C7_SameLanguageIdentity ==
    \A r \in Reqs :
        (rq[r].pc = "done" /\ rq[r].op = "translate_text"
         /\ rq[r].source_lang = rq[r].target_language) =>
            /\ rq[r].answer = rq[r].text
            /\ rq[r].provider_log = <<>>
            /\ rq[r].exc = FALSE

\* C7 witness: translate_text was called with "auto" on both sides and a
\* non-empty text
C7_Witness ==
    \E r \in Reqs :
        /\ rq[r].pc = "done" /\ rq[r].op = "translate_text"
        /\ rq[r].source_lang = "auto" /\ rq[r].target_language = "auto"
        /\ rq[r].text /= <<>>
        /\ rq[r].answer = rq[r].text

\* C8: when source and target differ and the translation provider fails,
\* translate_text returns the text it was given, unmodified, and raises
\* nothing: in a direct call, and in the calls get_response makes.
C8_ProviderFailureReturnsInput ==
    \A r \in Reqs :
        (rq[r].pc = "done" /\ rq[r].prov_reply = "error") =>
            /\ rq[r].exc = FALSE
            /\ Len(rq[r].provider_log) = 1
            /\ rq[r].provider_log[1].source /= rq[r].provider_log[1].target
            /\ rq[r].answer = rq[r].provider_log[1].text
            /\ rq[r].op = "translate_text" =>
                 /\ rq[r].answer = rq[r].text
                 /\ rq[r].source_lang /= rq[r].target_language

\* C8 witness: a direct call with different languages and a non-empty text
\* met a failing provider
C8_Witness ==
    \E r \in Reqs :
        /\ rq[r].pc = "done" /\ rq[r].op = "translate_text"
        /\ rq[r].prov_reply = "error"
        /\ rq[r].source_lang /= rq[r].target_language
        /\ rq[r].text /= <<>>
        /\ rq[r].answer = rq[r].text

\* a is raw without its leading and trailing whitespace
IsStripOf(a, raw) ==
    /\ a /= <<>> => (a[1] \notin Whitespace /\ a[Len(a)] \notin Whitespace)
    /\ \E i \in 0..(Len(raw) - Len(a)) :
         /\ SubSeq(raw, i + 1, i + Len(a)) = a
         /\ \A j \in 1..Len(raw) :
              (j <= i \/ j > i + Len(a)) => raw[j] \in Whitespace

\* p is the first n characters of a, all of a when it has fewer
IsFirstChars(p, a, n) ==
    /\ Len(p) = (IF Len(a) < n THEN Len(a) ELSE n)
    /\ \A i \in 1..Len(p) : p[i] = a[i]

\* C9: the language check of the answer runs in live mode only and only when
\* the target is not "en": after a successful remote call the guesser gets
\* the first 100 characters of the stripped answer, and the whole answer goes
\* through the translator (source: the detected language, target: the target
\* language) exactly when the detected language differs from the target;
\* with target "en", or a detected language equal to the target, the
\* stripped answer is returned unchanged and the translator is not used.
C9_PostHocLanguageCheck ==
    \A r \in Reqs :
        Responded(r) =>
            /\ (use_mock \/ rq[r].target_language = "en" \/ RemoteFailed(r)) =>
                 (rq[r].answer_detect_log = <<>> /\ rq[r].redetected = None)
            /\ (~use_mock /\ rq[r].chat.kind = "ok") =>
                 \E a \in {rq[r].answer} \cup
                          {e.text : e \in {rq[r].provider_log[i] :
                                             i \in DOMAIN rq[r].provider_log}} :
                     /\ IsStripOf(a, rq[r].chat.content)
                     /\ IF rq[r].target_language = "en"
                        THEN /\ rq[r].answer = a
                             /\ rq[r].provider_log = <<>>
                        ELSE /\ Len(rq[r].answer_detect_log) = 1
                             /\ IsFirstChars(rq[r].answer_detect_log[1], a, 100)
                             /\ IF rq[r].redetected = rq[r].target_language
                                THEN /\ rq[r].answer = a
                                     /\ rq[r].provider_log = <<>>
                                ELSE /\ rq[r].provider_log =
                                          <<[text |-> a,
                                             source |-> rq[r].redetected,
                                             target |-> rq[r].target_language]>>
                                     /\ rq[r].answer =
                                          (IF rq[r].prov_reply = "ok"
                                           THEN Translated(a, rq[r].redetected,
                                                   rq[r].target_language)
                                           ELSE a)

\* C9 witness: a live answer of more than 100 characters, detected in a
\* language other than the target, went through the translator
C9_Witness ==
    \E r \in Reqs :
        /\ Responded(r) /\ ~use_mock /\ rq[r].chat.kind = "ok"
        /\ rq[r].target_language = "es"
        /\ rq[r].redetected = "ja"
        /\ Len(strip(rq[r].chat.content)) > 100
        /\ Len(rq[r].answer_detect_log[1]) = 100
        /\ Len(rq[r].provider_log) = 1
        /\ rq[r].prov_reply = "ok"

\* C10: within one chat request the target language is fixed when the prompt
\* is built: the code create_context_prompt returned is the one handed to
\* get_response and the one reported as detected_language, and the check of
\* the answer's language changes neither the target of the translation nor
\* the reported code.
C10_TargetLanguageFixed ==
    \A r \in Reqs :
        (Responded(r) /\ rq[r].op = "chat") =>
            /\ rq[r].detected_language =
                 (IF Truthy(rq[r].language) THEN rq[r].language
                  ELSE IF rq[r].det_reply \in DetectorCodes
                  THEN rq[r].det_reply ELSE "en")
            /\ rq[r].target_language = rq[r].detected_language
            /\ rq[r].response.detected_language = rq[r].detected_language
            /\ \A i \in DOMAIN rq[r].provider_log :
                 rq[r].provider_log[i].target = rq[r].detected_language

\* C10 witness: the answer of a chat request was detected in a language other
\* than the target and translated; the reported code is still the target
C10_Witness ==
    \E r \in Reqs :
        /\ Responded(r) /\ rq[r].op = "chat" /\ ~use_mock
        /\ rq[r].redetected \notin {None, rq[r].detected_language}
        /\ Len(rq[r].provider_log) = 1
        /\ rq[r].response.detected_language = rq[r].detected_language

\* C11: create_context_prompt takes the caller's language code whenever one
\* is supplied (a non-empty string; None and "" count as not supplied), and
\* then does not call the guesser; otherwise it takes the guesser's result
\* on the user question.  The code it returns is that code, and the language
\* name in the prompt is the table's entry for the code or, for a code the
\* table does not have, the code itself.
C11_LanguageResolution ==
    \A r \in Reqs :
        Built(r) =>
            LET code == rq[r].detected_language
                name == IF code \in DOMAIN language_map
                        THEN language_map[code] ELSE code
            IN  /\ IF rq[r].language \notin {None, ""}
                   THEN /\ code = rq[r].language
                        /\ rq[r].detect_log = <<>>
                        /\ rq[r].det_reply = "unused"
                   ELSE /\ rq[r].detect_log = <<rq[r].user_message>>
                        /\ code = (IF rq[r].det_reply \in DetectorCodes
                                   THEN rq[r].det_reply ELSE "en")
                /\ IsInfix(<<"CUSTOMER QUESTION (in", name, "):">>
                             \o rq[r].user_message, rq[r].prompt)
                /\ IsInfix(<<"Remember: Your ENTIRE response must be in", name>>,
                           rq[r].prompt)

\* C11 witness: a prompt was built for a supplied code the table does not
\* have, with a non-empty question and no call of the guesser
C11_Witness ==
    \E r \in Reqs :
        /\ Built(r)
        /\ rq[r].language = "xx"
        /\ rq[r].user_message /= <<>>
        /\ rq[r].detected_language = "xx"
        /\ rq[r].detect_log = <<>>

\* C12: a failed remote call is never retried: every live get_response call
\* sends exactly one request to the chat endpoint, whether it succeeds or
\* fails, every mock call sends none, and on failure the call goes straight
\* to the fallback message (no language check of an answer, the apology
\* returned or handed to the translator).
C12_NoRetry ==
    \A r \in Reqs :
        Responded(r) =>
            /\ rq[r].chat_calls = (IF use_mock THEN 0 ELSE 1)
            /\ use_mock => rq[r].chat.kind = "unused"
            /\ (~use_mock /\ RemoteFailed(r)) =>
                 /\ rq[r].answer_detect_log = <<>>
                 /\ IF rq[r].target_language = "en"
                    THEN /\ rq[r].provider_log = <<>>
                         /\ rq[r].answer[1] = Apology
                    ELSE /\ Len(rq[r].provider_log) = 1
                         /\ rq[r].provider_log[1].text[1] = Apology

\* C12 witness: a live call whose request raised has ended with the fallback
\* message after one request
C12_Witness ==
    \E r \in Reqs :
        /\ Responded(r) /\ ~use_mock
        /\ rq[r].chat.kind = "raise"
        /\ rq[r].chat_calls = 1
        /\ rq[r].answer[1] = Apology

\* what request r gets when it runs alone on a service built in the same
\* environment, with the same inputs and the same replies of the external
\* services
AlonePrompt(r) ==
    create_context_prompt(rq[r].product_data, rq[r].user_message,
                          rq[r].language, rq[r].det_reply)
AloneAnswer(r) ==
    get_response(AlonePrompt(r).prompt, AlonePrompt(r).detected_lang,
                 LLMService_init(api_key, groq_ok).use_mock, rq[r].chat,
                 IF rq[r].redetected = None THEN "unused"
                 ELSE rq[r].redetected,
                 rq[r].prov_reply)

\* C13: concurrent chat requests on the shared LLMService instance share no
\* mutable state: no step writes an instance field (use_mock and client stay
\* what the constructor set), so under every interleaving of two requests
\* each request's prompt, target language and answer are those it gets when
\* it runs alone with the same replies of the external services.
C13_RequestsIndependent ==
    /\ use_mock = LLMService_init(api_key, groq_ok).use_mock
    /\ client = LLMService_init(api_key, groq_ok).client
    /\ \A r \in Reqs :
         /\ Built(r) =>
              /\ rq[r].prompt = AlonePrompt(r).prompt
              /\ rq[r].detected_language = AlonePrompt(r).detected_lang
         /\ (Responded(r) /\ rq[r].op = "chat") =>
              /\ rq[r].target_language = AlonePrompt(r).detected_lang
              /\ rq[r].answer = AloneAnswer(r).ret
              /\ rq[r].response.answer = AloneAnswer(r).ret
              /\ rq[r].response.detected_language = AlonePrompt(r).detected_lang

\* C13 witness: two requests for different products and languages are both
\* answered by a live service, one after a failed remote call, the other
\* after a successful one
C13_Witness ==
    /\ ~use_mock
    /\ Responded(1) /\ Responded(2)
    /\ rq[1].product_data /= rq[2].product_data
    /\ rq[1].detected_language /= rq[2].detected_language
    /\ rq[1].chat.kind = "raise"
    /\ rq[2].chat.kind = "ok"
    /\ rq[1].answer /= rq[2].answer

\* C14: detect_language never fails its caller: when the guesser cannot
\* classify the text (LangDetectException) or raises any other error, it
\* returns "en"; otherwise it returns the guesser's code unchanged.
C14_DetectNeverFails ==
    \A r \in Reqs :
        /\ (rq[r].pc = "done" /\ rq[r].op = "detect_language") =>
             /\ rq[r].exc = FALSE
             /\ rq[r].detect_log = <<rq[r].text>>
             /\ rq[r].ret_code =
                  (IF rq[r].det_reply \in {"LangDetectException", "Exception"}
                   THEN "en" ELSE rq[r].det_reply)
        /\ (rq[r].op \in {"chat", "create_context_prompt"}
            /\ rq[r].pc \in {"respond", "done"}
            /\ rq[r].det_reply /= "unused") =>
             /\ rq[r].exc = FALSE
             /\ rq[r].detected_language =
                  (IF rq[r].det_reply \in {"LangDetectException", "Exception"}
                   THEN "en" ELSE rq[r].det_reply)

\* C14 witness: a direct call on a non-empty text met a guesser that raised
\* an error other than LangDetectException, and returned "en"
C14_Witness ==
    \E r \in Reqs :
        /\ rq[r].pc = "done" /\ rq[r].op = "detect_language"
        /\ rq[r].text /= <<>>
        /\ rq[r].det_reply = "Exception"
        /\ rq[r].ret_code = "en"
        /\ rq[r].exc = FALSE

\* the Q:/A: block the claim describes: every entry's question and answer
\* once, in list order, entries separated by a line break; the placeholder
\* for the empty list
RECURSIVE ExpectedFaqBlock(_)
ExpectedFaqBlock(l) ==
    IF l = <<>> THEN <<"No FAQs available">>
    ELSE <<"Q: ">> \o l[1].question \o <<"\n", "A: ">> \o l[1].answer
         \o <<"\n">>
         \o (IF Len(l) = 1 THEN <<>>
             ELSE <<"\n">> \o ExpectedFaqBlock(Tail(l)))

\* C15: create_context_prompt renders the FAQ list as a Q:/A: block holding
\* every entry's question and answer exactly once, in the original order,
\* and for an empty or absent list the block is "No FAQs available".
C15_FaqBlock ==
    \A r \in Reqs :
        Built(r) =>
            LET l == IF rq[r].product_data.faqs.tag = "absent" THEN <<>>
                     ELSE rq[r].product_data.faqs.l
            IN  IsInfix(<<"FREQUENTLY ASKED QUESTIONS:", "\n">>
                          \o ExpectedFaqBlock(l)
                          \o <<"\n", "\n", "CUSTOMER QUESTION (in">>,
                        rq[r].prompt)

\* C15 witness: a prompt was built for a product with two different FAQs
C15_Witness ==
    \E r \in Reqs :
        /\ Built(r)
        /\ rq[r].product_data.faqs.tag = "list"
        /\ Len(rq[r].product_data.faqs.l) = 2
        /\ rq[r].product_data.faqs.l[1] /= rq[r].product_data.faqs.l[2]
        /\ IsInfix(<<"A: ">> \o rq[r].product_data.faqs.l[1].answer
                     \o <<"\n", "\n", "Q: ">>
                     \o rq[r].product_data.faqs.l[2].question,
                   rq[r].prompt)

====
